---- MODULE Spec2Model ----
(***************************************************************************)
(* Model of the concurrent batch engine of examples/batch-processing       *)
(* (BatchProcessor.ProcessJobs, BatchProcessor.worker, the dispatcher and  *)
(* barrier goroutines, the collector loop and the statistics fold).        *)
(*                                                                         *)
(* A behaviour is a sequence of ProcessJobs calls on one processor, one    *)
(* at a time.  Goroutines interleave at their channel operations,          *)
(* blocking calls and critical sections; the statements between two such   *)
(* points touch goroutine locals only and belong to the step that follows  *)
(* them.  The caller's context is an environment process that may be       *)
(* cancelled at any moment.  The Generator is the mock client of the tests:*)
(* a prompt containing "error" fails, a cancelled context may make the    *)
(* call return ctx.Err().                                                  *)
(***************************************************************************)
EXTENDS Integers, Sequences, FiniteSets, TLC

\* ---------------------------------------------------------------- bounds
\* the longest time.Since(start) of a Generate call, in ticks, under SpecTimed
MaxDur == 3

\* a run has at most MaxLoad jobs and workers taken together
MaxLoad == 4

\* the longest prompt list handed to createJobsFromPrompts
MaxPrompts == 10

\* the longest file createJobsFromFile reads, in characters
MaxFileLen == 6

\* the largest maxHistory a Conversation is created with
MaxHistory == 5

\* the number of SendMessage calls made on a Conversation
MaxCalls == 4

\* ------------------------------------------------------------ value sets
Prompts == {"good", "error"}
CtxErrors == {"Canceled", "DeadlineExceeded"}

VARIABLES
  jobs,          \* the []BatchJob argument of ProcessJobs
  workerCount,   \* bp.workerCount
  stats,         \* bp.stats (read and written under bp.mutex)
  ctxErr,        \* ctx.Err() of the caller-supplied context
  pc,            \* position of the ProcessJobs goroutine
  spawned,       \* loop variable i of the worker start loop
  jobChan,       \* buffered contents of jobChan
  jobChanClosed, \* close(jobChan) has run
  resultChan,    \* buffered contents of resultChan
  resultChanClosed, \* close(resultChan) has run
  wg,            \* counter of the sync.WaitGroup
  results,       \* the local slice results of ProcessJobs
  result,        \* the loop variable of the collector loop
  ret,           \* what ProcessJobs returned
  disp,          \* dispatcher goroutine: position and range index
  barrier,       \* position of the wg.Wait goroutine
  wk,            \* worker goroutines: position and locals
  factoryCalls,  \* number of xollm.GetClient calls made
  receivedBy,    \* history: which worker took each job off jobChan
  elapsed,       \* the values time.Since(start) can take in this run
  cancelledEarly, \* history: ctx was cancelled before any job completed
  pendingAtCancel, \* history: calls in flight at the cancellation, unreturned
  snap,          \* what a concurrent GetStatistics call returned to its caller
  source,        \* a createJobsFromPrompts or createJobsFromFile call
  ov,            \* two ProcessJobs calls on one processor that may overlap
  conv,          \* a Conversation of the conversation bot
  requested      \* the workerCount argument of NewBatchProcessor

vars == <<jobs, workerCount, stats, ctxErr, pc, spawned, jobChan,
          jobChanClosed, resultChan, resultChanClosed, wg, results, result,
          ret, disp, barrier, wk, factoryCalls, receivedBy, cancelledEarly,
          elapsed, pendingAtCancel, snap, source, ov, conv, requested>>

\* the variables of the batch engine
engineVars == <<jobs, workerCount, stats, ctxErr, pc, spawned, jobChan,
                jobChanClosed, resultChan, resultChanClosed, wg, results,
                result, ret, disp, barrier, wk, factoryCalls, receivedBy,
                cancelledEarly, elapsed, pendingAtCancel, snap>>

\* ------------------------------------------------------------ data types
NoJob == [ID |-> 0, Prompt |-> ""]

NoResult == [Job |-> NoJob, Response |-> "", Duration |-> 0,
             Error |-> "nil", Worker |-> 0]

\* BatchStatistics{} with the fields NewBatchProcessor sets
NewStats(w) == [TotalJobs |-> 0, CompletedJobs |-> 0, FailedJobs |-> 0,
                TotalDuration |-> 0, AverageDuration |-> 0,
                WorkerCount |-> w, Ended |-> FALSE]

\* variant of NewBatchProcessor that keeps the worker count it is given
NewBatchProcessorAsGiven(n) ==
  [workerCount |-> n, stats |-> NewStats(n)]

\* NewBatchProcessor(cfg, workerCount): a count <= 0 becomes 1
NewBatchProcessor(n) ==
  [workerCount |-> IF n <= 0 THEN 1 ELSE n,
   stats |-> NewStats(IF n <= 0 THEN 1 ELSE n)]

\* createJobsFromPrompts: job i carries the i-th prompt and the ID job-i
JobsFromPrompts(prompts) ==
  [i \in 1..Len(prompts) |-> [ID |-> i, Prompt |-> prompts[i]]]

\* ------------------------------------------------------------ job sources
\* strings are sequences of characters
Chars == {" ", "#", "a", "\n"}

DigitChars == <<"0", "1", "2", "3", "4", "5", "6", "7", "8", "9">>

\* the verb %d of fmt.Sprintf for n >= 0
RECURSIVE Decimal(_)
Decimal(n) ==
  IF n < 10 THEN <<DigitChars[n + 1]>>
            ELSE Decimal(n \div 10) \o <<DigitChars[(n % 10) + 1]>>

\* fmt.Sprintf("job-%d", n)
SprintfJob(n) == <<"j", "o", "b", "-">> \o Decimal(n)

\* make(map[string]interface{})
EmptyMap == [isNil |-> FALSE, keys |-> {}]

\* variant of createJobsFromPrompts that numbers the jobs from 0
createJobsFromPromptsZeroBased(prompts) ==
  [isNil |-> FALSE,
   items |-> [p \in 1..Len(prompts) |->
                [ID |-> SprintfJob(p - 1), Prompt |-> prompts[p],
                 Metadata |-> EmptyMap]]]

\* createJobsFromPrompts: jobs[i] for the 0-based index i is position i + 1
\* of the sequence and gets the ID job-(i+1); make returns a non-nil slice
createJobsFromPrompts(prompts) ==
  [isNil |-> FALSE,
   items |-> [p \in 1..Len(prompts) |->
                [ID |-> SprintfJob((p - 1) + 1), Prompt |-> prompts[p],
                 Metadata |-> EmptyMap]]]

\* a nil []BatchJob
NilJobs == [isNil |-> TRUE, items |-> <<>>]

\* unicode.IsSpace on the characters of the model
IsSpace(c) == c \in {" ", "\n"}

RECURSIVE TrimLeft(_)
TrimLeft(str) ==
  IF str # <<>> /\ IsSpace(Head(str)) THEN TrimLeft(Tail(str)) ELSE str

RECURSIVE TrimRight(_)
TrimRight(str) ==
  IF str # <<>> /\ IsSpace(str[Len(str)])
    THEN TrimRight(SubSeq(str, 1, Len(str) - 1))
    ELSE str

\* strings.TrimSpace
TrimSpace(str) == TrimRight(TrimLeft(str))

\* strings.HasPrefix(str, "#")
HasPrefixHash(str) == str # <<>> /\ Head(str) = "#"

\* bufio.ScanLines: the index of the newline that ends the line starting at
\* pos, or Len(content) + 1 for a last line without one
RECURSIVE LineEnd(_, _)
LineEnd(content, pos) ==
  IF pos > Len(content) \/ content[pos] = "\n" THEN pos
                                               ELSE LineEnd(content, pos + 1)

\* no job-source call is under way
NoSource == [op |-> "none", pc |-> "idle", input |-> <<>>, pos |-> 1,
             prompts |-> <<>>, open |-> FALSE, scanErr |-> FALSE,
             jobs |-> NilJobs, err |-> "nil"]

\* no second ProcessJobs call is made on the processor
NoOverlap == [stats |-> NewStats(0), call |-> <<>>]

\* no Conversation exists
NoConversation == [maxHistory |-> 0, systemPrompt |-> "", history |-> <<>>,
                   client |-> "nil", op |-> "none", response |-> "",
                   err |-> "nil", calls |-> 0]

\* no GetStatistics call has returned yet
NoSnapshot == [taken |-> FALSE, stats |-> NewStats(0)]

NewWorker == [pc |-> "unborn", job |-> NoJob, client |-> "none",
              closes |-> 0]

\* the mock generateFunc: a prompt containing "error" fails
GenerateFunc(prompt) ==
  IF prompt = "error" THEN [Response |-> "", Error |-> "generation"]
                      ELSE [Response |-> "Response", Error |-> "nil"]

\* mockClient.Generate: the set of pairs the call may return under context
\* state e; a cancelled context may win the select and return ctx.Err()
GenerateReturns(e, prompt) ==
  {GenerateFunc(prompt)} \cup
  (IF e = "nil" THEN {} ELSE {[Response |-> "", Error |-> e]})

\* ------------------------------------------------- pure parts of the code
\* variant of MakeResult that leaves the Error field unset
MakeResultNoError(job, gen, duration, workerID) ==
  [Job |-> job, Response |-> gen.Response, Duration |-> duration,
   Error |-> "nil", Worker |-> workerID]

\* variant of MakeResult that leaves the Worker field unset
MakeResultNoWorker(job, gen, duration, workerID) ==
  [Job |-> job, Response |-> gen.Response, Duration |-> duration,
   Error |-> gen.Error, Worker |-> 0]

\* the BatchResult literal the worker builds after Generate returned
MakeResult(job, gen, duration, workerID) ==
  [Job |-> job, Response |-> gen.Response, Duration |-> duration,
   Error |-> gen.Error, Worker |-> workerID]

\* variant of SetupResult that leaves the Error field unset
SetupResultNoError(job, workerID) ==
  [Job |-> job, Response |-> "", Duration |-> 0,
   Error |-> "nil", Worker |-> workerID]

\* variant of SetupResult whose error lacks the client-construction prefix
SetupResultUnwrapped(job, workerID) ==
  [Job |-> job, Response |-> "", Duration |-> 0,
   Error |-> "generation", Worker |-> workerID]

\* the BatchResult literal of a worker whose GetClient call failed:
\* only Job, Error (the wrapped client-construction error) and Worker are set
SetupResult(job, workerID) ==
  [Job |-> job, Response |-> "", Duration |-> 0,
   Error |-> "setup", Worker |-> workerID]

\* the statistics update of the collector loop, under bp.mutex
FoldStats(s, r) ==
  [s EXCEPT !.CompletedJobs = IF r.Error = "nil" THEN @ + 1 ELSE @,
            !.FailedJobs = IF r.Error = "nil" THEN @ ELSE @ + 1,
            !.TotalDuration = @ + r.Duration]

\* variant of FinalizeStats that averages over the Results received
FinalizeStatsOverReceived(s) ==
  [s EXCEPT !.Ended = TRUE,
            !.AverageDuration = IF s.CompletedJobs + s.FailedJobs > 0
                                   THEN s.TotalDuration \div
                                          (s.CompletedJobs + s.FailedJobs)
                                   ELSE @]

\* "Finalize statistics", under bp.mutex
FinalizeStats(s) ==
  [s EXCEPT !.Ended = TRUE,
            !.AverageDuration = IF s.TotalJobs > 0
                                   THEN s.TotalDuration \div s.TotalJobs
                                   ELSE @]

\* variant of RunError that reports only an expired deadline
RunErrorDeadlineOnly(e) == IF e = "DeadlineExceeded" THEN e ELSE "nil"

\* variant of RunError that reports a failed job as the error of the run
RunErrorOnFailure(e) ==
  IF e = "nil" /\ stats.FailedJobs > 0 THEN "generation" ELSE e

\* the error ProcessJobs returns for a non-empty job list: ctx.Err()
RunError(e) == e

\* cap(jobChan) and cap(resultChan): make(chan ..., len(jobs))
ChanCap == Len(jobs)

Workers == 1..workerCount

\* the jobs whose client.Generate call has been made and has not returned
InFlight == {wk[w].job.ID : w \in {v \in Workers : wk[v].pc = "generating"}}

\* number of jobs for which a worker has finished building a Result
NumCompleted ==
  Cardinality({j \in 1..Len(jobs) : receivedBy[j] # 0})
  - Cardinality({w \in Workers : wk[w].pc = "generating"})

\* ------------------------------------------------------------------ Init
\* NewBatchProcessor(cfg, workerCount) followed by the arguments of the one
\* ProcessJobs call of this behaviour.
Init ==
  /\ \E n \in 0..(MaxLoad - 1) : \E prompts \in [1..n -> Prompts] :
       jobs = JobsFromPrompts(prompts)
  /\ workerCount \in 1..(MaxLoad - Len(jobs))
  /\ stats = NewStats(workerCount)
  /\ ctxErr = "nil"
  /\ pc = "idle"
  /\ spawned = 0
  /\ jobChan = <<>>
  /\ jobChanClosed = FALSE
  /\ resultChan = <<>>
  /\ resultChanClosed = FALSE
  /\ wg = 0
  /\ results = <<>>
  /\ result = NoResult
  /\ ret = [done |-> FALSE, results |-> <<>>, err |-> "nil"]
  /\ disp = [pc |-> "unborn", i |-> 1]
  /\ barrier = "unborn"
  /\ wk = [w \in 1..workerCount |-> NewWorker]
  /\ factoryCalls = 0
  /\ receivedBy = [j \in 1..Len(jobs) |-> 0]
  /\ cancelledEarly = FALSE
  /\ pendingAtCancel = {}
  /\ snap = NoSnapshot
  /\ ov = NoOverlap
  /\ conv = NoConversation
  /\ requested = workerCount
  /\ source = NoSource
  /\ elapsed = {1}

\* ----------------------------------------------------------- environment
\* the caller cancels the context, or its deadline passes
Cancel ==
  /\ ctxErr = "nil"
  /\ ctxErr' \in CtxErrors
  /\ cancelledEarly' = (pc # "returned" /\ NumCompleted = 0)
  /\ pendingAtCancel' = InFlight
  /\ UNCHANGED <<requested, conv, ov, source, snap, elapsed, jobs, workerCount, stats, pc, spawned, jobChan,
                 jobChanClosed, resultChan, resultChanClosed, wg, results,
                 result, ret, disp, barrier, wk, factoryCalls, receivedBy>>

\* the caller calls ProcessJobs on the same processor once more, with a
\* fresh context or the one of the previous call; bp.stats and
\* bp.workerCount persist, the locals and goroutines of the call are new.
\* A dispatcher the previous call left behind touches only that call's
\* jobChan; its remaining steps are taken before the next call.
CallAgain ==
  /\ pc = "returned"
  /\ disp.pc # "loop"
  /\ pc' = "idle"
  /\ \E n \in 0..(MaxLoad - workerCount) : \E prompts \in [1..n -> Prompts] :
       /\ jobs' = JobsFromPrompts(prompts)
       /\ receivedBy' = [j \in 1..n |-> 0]
  /\ ctxErr' \in {"nil", ctxErr}
  /\ cancelledEarly' = (ctxErr' # "nil")
  /\ spawned' = 0
  /\ jobChan' = <<>>
  /\ jobChanClosed' = FALSE
  /\ resultChan' = <<>>
  /\ resultChanClosed' = FALSE
  /\ wg' = 0
  /\ results' = <<>>
  /\ result' = NoResult
  /\ ret' = [done |-> FALSE, results |-> <<>>, err |-> "nil"]
  /\ disp' = [pc |-> "unborn", i |-> 1]
  /\ barrier' = "unborn"
  /\ wk' = [w \in Workers |-> NewWorker]
  /\ factoryCalls' = 0
  /\ pendingAtCancel' = {}
  /\ UNCHANGED <<requested, conv, ov, source, snap, elapsed, workerCount, stats>>

\* ----------------------------------------------------------- ProcessJobs
\* len(jobs) == 0: return []BatchResult{}, nil
ProcessJobsEmpty ==
  /\ pc = "idle"
  /\ Len(jobs) = 0
  /\ pc' = "returned"
  /\ ret' = [done |-> TRUE, results |-> <<>>, err |-> "nil"]
  /\ UNCHANGED <<requested, conv, ov, source, snap, elapsed, pendingAtCancel, jobs, workerCount, stats, ctxErr, spawned, jobChan,
                 jobChanClosed, resultChan, resultChanClosed, wg, results,
                 result, disp, barrier, wk, factoryCalls, receivedBy,
                 cancelledEarly>>

\* variant of ProcessJobsInit without the len(jobs) == 0 early return
ProcessJobsInitAlways ==
  /\ pc = "idle"
  /\ stats' = [NewStats(workerCount) EXCEPT !.TotalJobs = Len(jobs)]
  /\ jobChan' = <<>>
  /\ resultChan' = <<>>
  /\ pc' = "startWorkers"
  /\ UNCHANGED <<requested, conv, ov, source, snap, elapsed, pendingAtCancel, jobs, workerCount, ctxErr, spawned, jobChanClosed,
                 resultChanClosed, wg, results, result, ret, disp, barrier,
                 wk, factoryCalls, receivedBy, cancelledEarly>>

\* "Initialize statistics" and the two make(chan ...) calls
ProcessJobsInit ==
  /\ pc = "idle"
  /\ Len(jobs) # 0
  /\ stats' = [NewStats(workerCount) EXCEPT !.TotalJobs = Len(jobs)]
  /\ jobChan' = <<>>
  /\ resultChan' = <<>>
  /\ pc' = "startWorkers"
  /\ UNCHANGED <<requested, conv, ov, source, snap, elapsed, pendingAtCancel, jobs, workerCount, ctxErr, spawned, jobChanClosed,
                 resultChanClosed, wg, results, result, ret, disp, barrier,
                 wk, factoryCalls, receivedBy, cancelledEarly>>

\* one iteration of "Start workers": wg.Add(1); go bp.worker(ctx, i+1, ...)
StartWorker ==
  /\ pc = "startWorkers"
  /\ spawned < workerCount
  /\ wg' = wg + 1
  /\ wk' = [wk EXCEPT ![spawned + 1].pc = "getClient"]
  /\ spawned' = spawned + 1
  /\ UNCHANGED <<requested, conv, ov, source, snap, elapsed, pendingAtCancel, jobs, workerCount, stats, ctxErr, pc, jobChan,
                 jobChanClosed, resultChan, resultChanClosed, results,
                 result, ret, disp, barrier, factoryCalls, receivedBy,
                 cancelledEarly>>

\* the loop is over; "Send jobs to workers": go func() { ... }()
StartDispatcher ==
  /\ pc = "startWorkers"
  /\ spawned = workerCount
  /\ disp' = [pc |-> "loop", i |-> 1]
  /\ pc' = "startBarrier"
  /\ UNCHANGED <<requested, conv, ov, source, snap, elapsed, pendingAtCancel, jobs, workerCount, stats, ctxErr, spawned, jobChan,
                 jobChanClosed, resultChan, resultChanClosed, wg, results,
                 result, ret, barrier, wk, factoryCalls, receivedBy,
                 cancelledEarly>>

\* var results []BatchResult; go func() { wg.Wait(); close(resultChan) }()
StartBarrier ==
  /\ pc = "startBarrier"
  /\ results' = <<>>
  /\ barrier' = "wait"
  /\ pc' = "collect"
  /\ UNCHANGED <<requested, conv, ov, source, snap, elapsed, pendingAtCancel, jobs, workerCount, stats, ctxErr, spawned, jobChan,
                 jobChanClosed, resultChan, resultChanClosed, wg, result,
                 ret, disp, wk, factoryCalls, receivedBy, cancelledEarly>>

\* variant of CollectRecv that appends the received Result twice
CollectRecvTwice ==
  /\ pc = "collect"
  /\ resultChan # <<>>
  /\ result' = Head(resultChan)
  /\ resultChan' = Tail(resultChan)
  /\ results' = Append(Append(results, Head(resultChan)), Head(resultChan))
  /\ pc' = "fold"
  /\ UNCHANGED <<requested, conv, ov, source, snap, elapsed, pendingAtCancel, jobs, workerCount, stats, ctxErr,
                 spawned, jobChan, jobChanClosed, resultChanClosed, wg, ret,
                 disp, barrier, wk, factoryCalls, receivedBy, cancelledEarly>>

\* for result := range resultChan { results = append(results, result)
CollectRecv ==
  /\ pc = "collect"
  /\ resultChan # <<>>
  /\ result' = Head(resultChan)
  /\ resultChan' = Tail(resultChan)
  /\ results' = Append(results, Head(resultChan))
  /\ pc' = "fold"
  /\ UNCHANGED <<requested, conv, ov, source, snap, elapsed, pendingAtCancel, jobs, workerCount, stats, ctxErr, spawned, jobChan,
                 jobChanClosed, resultChanClosed, wg, ret, disp, barrier,
                 wk, factoryCalls, receivedBy, cancelledEarly>>

\* "Update statistics": the critical section of the collector loop
CollectFold ==
  /\ pc = "fold"
  /\ stats' = FoldStats(stats, result)
  /\ pc' = "collect"
  /\ UNCHANGED <<requested, conv, ov, source, snap, elapsed, pendingAtCancel, jobs, workerCount, ctxErr, spawned, jobChan, jobChanClosed,
                 resultChan, resultChanClosed, wg, results, result, ret,
                 disp, barrier, wk, factoryCalls, receivedBy, cancelledEarly>>

\* bp.mutex.Lock() and the first assignment of the critical section:
\* bp.stats.CompletedJobs++ or bp.stats.FailedJobs++
CollectFoldCount ==
  /\ pc = "fold"
  /\ stats' = [stats EXCEPT
                 !.CompletedJobs = IF result.Error = "nil" THEN @ + 1 ELSE @,
                 !.FailedJobs = IF result.Error = "nil" THEN @ ELSE @ + 1]
  /\ pc' = "foldDuration"
  /\ UNCHANGED <<requested, conv, ov, source, snap, elapsed, pendingAtCancel, jobs, workerCount, ctxErr, spawned, jobChan,
                 jobChanClosed, resultChan, resultChanClosed, wg, results,
                 result, ret, disp, barrier, wk, factoryCalls, receivedBy,
                 cancelledEarly>>

\* bp.stats.TotalDuration += result.Duration; bp.mutex.Unlock()
CollectFoldDuration ==
  /\ pc = "foldDuration"
  /\ stats' = [stats EXCEPT !.TotalDuration = @ + result.Duration]
  /\ pc' = "collect"
  /\ UNCHANGED <<requested, conv, ov, source, snap, elapsed, pendingAtCancel, jobs, workerCount, ctxErr, spawned, jobChan,
                 jobChanClosed, resultChan, resultChanClosed, wg, results,
                 result, ret, disp, barrier, wk, factoryCalls, receivedBy,
                 cancelledEarly>>

\* variant of GetStatistics that copies bp.stats without taking bp.mutex
GetStatisticsNoLock ==
  /\ ~snap.taken
  /\ snap' = [taken |-> TRUE, stats |-> stats]
  /\ UNCHANGED <<requested, conv, ov, source, elapsed, pendingAtCancel, stats, pc, jobs, workerCount, ctxErr, spawned, jobChan,
                 jobChanClosed, resultChan, resultChanClosed, wg, results,
                 result, ret, disp, barrier, wk, factoryCalls, receivedBy,
                 cancelledEarly>>

\* a GetStatistics call of another goroutine: bp.mutex.RLock() waits while
\* the collector holds the write lock; return bp.stats copies the struct
GetStatistics ==
  /\ ~snap.taken
  /\ pc # "foldDuration"
  /\ snap' = [taken |-> TRUE, stats |-> stats]
  /\ UNCHANGED <<requested, conv, ov, source, elapsed, pendingAtCancel, stats, pc, jobs, workerCount, ctxErr, spawned, jobChan,
                 jobChanClosed, resultChan, resultChanClosed, wg, results,
                 result, ret, disp, barrier, wk, factoryCalls, receivedBy,
                 cancelledEarly>>

\* range over a closed and drained resultChan ends; "Finalize statistics"
CollectEnd ==
  /\ pc = "collect"
  /\ resultChan = <<>>
  /\ resultChanClosed
  /\ stats' = FinalizeStats(stats)
  /\ pc' = "return"
  /\ UNCHANGED <<requested, conv, ov, source, snap, elapsed, pendingAtCancel, jobs, workerCount, ctxErr, spawned, jobChan, jobChanClosed,
                 resultChan, resultChanClosed, wg, results, result, ret,
                 disp, barrier, wk, factoryCalls, receivedBy, cancelledEarly>>

\* return results, ctx.Err()
ProcessJobsReturn ==
  /\ pc = "return"
  /\ ret' = [done |-> TRUE, results |-> results, err |-> RunError(ctxErr)]
  /\ pc' = "returned"
  /\ UNCHANGED <<requested, conv, ov, source, snap, elapsed, pendingAtCancel, jobs, workerCount, stats, ctxErr, spawned, jobChan,
                 jobChanClosed, resultChan, resultChanClosed, wg, results,
                 result, disp, barrier, wk, factoryCalls, receivedBy,
                 cancelledEarly>>

\* ------------------------------------------------------------ dispatcher
\* select case jobChan <- job (the buffer holds len(jobs), so never full)
DispatchSend ==
  /\ disp.pc = "loop"
  /\ disp.i <= Len(jobs)
  /\ Len(jobChan) < ChanCap
  /\ jobChan' = Append(jobChan, jobs[disp.i])
  /\ disp' = [disp EXCEPT !.i = @ + 1]
  /\ UNCHANGED <<requested, conv, ov, source, snap, elapsed, pendingAtCancel, jobs, workerCount, stats, ctxErr, pc, spawned,
                 jobChanClosed, resultChan, resultChanClosed, wg, results,
                 result, ret, barrier, wk, factoryCalls, receivedBy,
                 cancelledEarly>>

\* variant of DispatchCtxDone that returns without close(jobChan)
DispatchCtxDoneNoClose ==
  /\ disp.pc = "loop"
  /\ disp.i <= Len(jobs)
  /\ ctxErr # "nil"
  /\ jobChanClosed' = jobChanClosed
  /\ disp' = [disp EXCEPT !.pc = "done"]
  /\ UNCHANGED <<requested, conv, ov, source, snap, elapsed, pendingAtCancel, jobs, workerCount, stats, ctxErr, pc, spawned, jobChan,
                 resultChan, resultChanClosed, wg, results, result, ret,
                 barrier, wk, factoryCalls, receivedBy, cancelledEarly>>

\* select case <-ctx.Done(): return, running the deferred close(jobChan)
DispatchCtxDone ==
  /\ disp.pc = "loop"
  /\ disp.i <= Len(jobs)
  /\ ctxErr # "nil"
  /\ jobChanClosed' = TRUE
  /\ disp' = [disp EXCEPT !.pc = "done"]
  /\ UNCHANGED <<requested, conv, ov, source, snap, elapsed, pendingAtCancel, jobs, workerCount, stats, ctxErr, pc, spawned, jobChan,
                 resultChan, resultChanClosed, wg, results, result, ret,
                 barrier, wk, factoryCalls, receivedBy, cancelledEarly>>

\* the range is exhausted: the goroutine ends, the deferred close runs
DispatchEnd ==
  /\ disp.pc = "loop"
  /\ disp.i > Len(jobs)
  /\ jobChanClosed' = TRUE
  /\ disp' = [disp EXCEPT !.pc = "done"]
  /\ UNCHANGED <<requested, conv, ov, source, snap, elapsed, pendingAtCancel, jobs, workerCount, stats, ctxErr, pc, spawned, jobChan,
                 resultChan, resultChanClosed, wg, results, result, ret,
                 barrier, wk, factoryCalls, receivedBy, cancelledEarly>>

\* variant of BarrierClose that does not wait for the workers
BarrierCloseNoWait ==
  /\ barrier = "wait"
  /\ resultChanClosed' = TRUE
  /\ barrier' = "done"
  /\ UNCHANGED <<requested, conv, ov, source, snap, elapsed, pendingAtCancel, jobs, workerCount, stats, ctxErr, pc, spawned, jobChan,
                 jobChanClosed, resultChan, wg, results, result, ret, disp,
                 wk, factoryCalls, receivedBy, cancelledEarly>>

\* --------------------------------------------------------------- barrier
\* wg.Wait() returns once the counter is zero; close(resultChan)
BarrierClose ==
  /\ barrier = "wait"
  /\ wg = 0
  /\ resultChanClosed' = TRUE
  /\ barrier' = "done"
  /\ UNCHANGED <<requested, conv, ov, source, snap, elapsed, pendingAtCancel, jobs, workerCount, stats, ctxErr, pc, spawned, jobChan,
                 jobChanClosed, resultChan, wg, results, result, ret, disp,
                 wk, factoryCalls, receivedBy, cancelledEarly>>

\* ---------------------------------------------------------------- worker
\* variant of WorkerExit in which wg.Done() is not called
WorkerExitNoDone(w, hasClient) ==
  /\ wk' = [wk EXCEPT ![w].pc = "done", ![w].job = NoJob,
                      ![w].client = IF hasClient THEN "closed" ELSE @,
                      ![w].closes = IF hasClient THEN @ + 1 ELSE @]
  /\ wg' = wg

\* the deferred calls of a returning worker: client.Close() where it was
\* registered, then wg.Done()
WorkerExit(w, hasClient) ==
  /\ wk' = [wk EXCEPT ![w].pc = "done", ![w].job = NoJob,
                      ![w].client = IF hasClient THEN "closed" ELSE @,
                      ![w].closes = IF hasClient THEN @ + 1 ELSE @]
  /\ wg' = wg - 1

\* client, err := xollm.GetClient(bp.config, false) succeeds
GetClientOk(w) ==
  /\ wk[w].pc = "getClient"
  /\ factoryCalls' = factoryCalls + 1
  /\ wk' = [wk EXCEPT ![w].pc = "select", ![w].client = "open"]
  /\ UNCHANGED <<requested, conv, ov, source, snap, elapsed, pendingAtCancel, jobs, workerCount, stats, ctxErr, pc, spawned, jobChan,
                 jobChanClosed, resultChan, resultChanClosed, wg, results,
                 result, ret, disp, barrier, receivedBy, cancelledEarly>>

\* variant of GetClientFail that calls the factory again after a failure
GetClientFailRetry(w) ==
  /\ wk[w].pc = "getClient"
  /\ factoryCalls' = factoryCalls + 1
  /\ wk' = [wk EXCEPT ![w].pc = "getClient", ![w].client = "failed"]
  /\ UNCHANGED <<requested, conv, ov, source, snap, elapsed, pendingAtCancel, jobs, workerCount, stats, ctxErr, pc, spawned, jobChan,
                 jobChanClosed, resultChan, resultChanClosed, wg, results,
                 result, ret, disp, barrier, receivedBy, cancelledEarly>>

\* xollm.GetClient fails: the worker enters "for job := range jobChan"
GetClientFail(w) ==
  /\ wk[w].pc = "getClient"
  /\ factoryCalls' = factoryCalls + 1
  /\ wk' = [wk EXCEPT ![w].pc = "drain", ![w].client = "failed"]
  /\ UNCHANGED <<requested, conv, ov, source, snap, elapsed, pendingAtCancel, jobs, workerCount, stats, ctxErr, pc, spawned, jobChan,
                 jobChanClosed, resultChan, resultChanClosed, wg, results,
                 result, ret, disp, barrier, receivedBy, cancelledEarly>>

\* variant of DrainRecv that discards the job instead of failing it
DrainDiscard(w) ==
  /\ wk[w].pc = "drain"
  /\ jobChan # <<>>
  /\ jobChan' = Tail(jobChan)
  /\ receivedBy' = [receivedBy EXCEPT ![Head(jobChan).ID] = w]
  /\ UNCHANGED <<requested, conv, ov, source, snap, elapsed, pendingAtCancel, jobs, workerCount, stats, ctxErr, pc, spawned,
                 jobChanClosed, resultChan, resultChanClosed, wg, results,
                 result, ret, disp, barrier, wk, factoryCalls,
                 cancelledEarly>>

\* failed client: one iteration of "for job := range jobChan": a job is
\* received and its Result is sent; the send never waits, resultChan has
\* room for one Result per job (ResultChanHasRoom)
DrainRecv(w) ==
  /\ wk[w].pc = "drain"
  /\ jobChan # <<>>
  /\ jobChan' = Tail(jobChan)
  /\ receivedBy' = [receivedBy EXCEPT ![Head(jobChan).ID] = w]
  /\ resultChan' = Append(resultChan, SetupResult(Head(jobChan), w))
  /\ UNCHANGED <<requested, conv, ov, source, snap, elapsed, pendingAtCancel, jobs, workerCount, stats, ctxErr, pc, spawned,
                 jobChanClosed, resultChanClosed, wg, results, result, ret,
                 disp, barrier, wk, factoryCalls, cancelledEarly>>

\* failed client: the range loop ends on a closed, drained jobChan; return
DrainEnd(w) ==
  /\ wk[w].pc = "drain"
  /\ jobChan = <<>>
  /\ jobChanClosed
  /\ WorkerExit(w, FALSE)
  /\ UNCHANGED <<requested, conv, ov, source, snap, elapsed, pendingAtCancel, jobs, workerCount, stats, ctxErr, pc, spawned, jobChan,
                 jobChanClosed, resultChan, resultChanClosed, results,
                 result, ret, disp, barrier, factoryCalls, receivedBy,
                 cancelledEarly>>

\* variant of WorkerRecv that sends a Result before Generate has returned
WorkerRecvEmitEarly(w) ==
  /\ wk[w].pc = "select"
  /\ jobChan # <<>>
  /\ jobChan' = Tail(jobChan)
  /\ receivedBy' = [receivedBy EXCEPT ![Head(jobChan).ID] = w]
  /\ wk' = [wk EXCEPT ![w].pc = "generating", ![w].job = Head(jobChan)]
  /\ resultChan' = Append(resultChan,
                          MakeResult(Head(jobChan), GenerateFunc(Head(jobChan).Prompt), 0, w))
  /\ UNCHANGED <<requested, conv, ov, source, snap, elapsed, pendingAtCancel, jobs, workerCount, stats, ctxErr, pc, spawned,
                 jobChanClosed,  resultChanClosed, wg, results,
                 result, ret, disp, barrier, factoryCalls, cancelledEarly>>

\* variant of WorkerRecv that takes the next job while a call is in flight
WorkerRecvWhileGenerating(w) ==
  /\ wk[w].pc \in {"select", "generating"}
  /\ jobChan # <<>>
  /\ jobChan' = Tail(jobChan)
  /\ receivedBy' = [receivedBy EXCEPT ![Head(jobChan).ID] = w]
  /\ wk' = [wk EXCEPT ![w].pc = "generating", ![w].job = Head(jobChan)]
  /\ UNCHANGED <<requested, conv, ov, source, snap, elapsed, pendingAtCancel, jobs, workerCount, stats, ctxErr, pc, spawned,
                 jobChanClosed, resultChan, resultChanClosed, wg, results,
                 result, ret, disp, barrier, factoryCalls, cancelledEarly>>

\* variant of WorkerRecv that takes the job sent last
WorkerRecvLast(w) ==
  /\ wk[w].pc = "select"
  /\ jobChan # <<>>
  /\ jobChan' = SubSeq(jobChan, 1, Len(jobChan) - 1)
  /\ receivedBy' = [receivedBy EXCEPT ![jobChan[Len(jobChan)].ID] = w]
  /\ wk' = [wk EXCEPT ![w].pc = "generating", ![w].job = jobChan[Len(jobChan)]]
  /\ UNCHANGED <<requested, conv, ov, source, snap, elapsed, pendingAtCancel, jobs, workerCount, stats, ctxErr, pc, spawned,
                 jobChanClosed, resultChan, resultChanClosed, wg, results,
                 result, ret, disp, barrier, factoryCalls, cancelledEarly>>

\* select case job, ok := <-jobChan with ok: time.Now(), client.Generate
\* is called and is in flight
WorkerRecv(w) ==
  /\ wk[w].pc = "select"
  /\ jobChan # <<>>
  /\ jobChan' = Tail(jobChan)
  /\ receivedBy' = [receivedBy EXCEPT ![Head(jobChan).ID] = w]
  /\ wk' = [wk EXCEPT ![w].pc = "generating", ![w].job = Head(jobChan)]
  /\ UNCHANGED <<requested, conv, ov, source, snap, elapsed, pendingAtCancel, jobs, workerCount, stats, ctxErr, pc, spawned,
                 jobChanClosed, resultChan, resultChanClosed, wg, results,
                 result, ret, disp, barrier, factoryCalls, cancelledEarly>>

\* variant of WorkerChanClosed that returns as soon as jobChan is empty
WorkerExitOnEmpty(w) ==
  /\ wk[w].pc = "select"
  /\ jobChan = <<>>
  /\ WorkerExit(w, TRUE)
  /\ UNCHANGED <<requested, conv, ov, source, snap, elapsed, pendingAtCancel, jobs, workerCount, stats, ctxErr, pc, spawned,
                 jobChan, jobChanClosed, resultChan, resultChanClosed,
                 results, result, ret, disp, barrier, factoryCalls,
                 receivedBy, cancelledEarly>>

\* select case job, ok := <-jobChan with !ok: return
WorkerChanClosed(w) ==
  /\ wk[w].pc = "select"
  /\ jobChan = <<>>
  /\ jobChanClosed
  /\ WorkerExit(w, TRUE)
  /\ UNCHANGED <<requested, conv, ov, source, snap, elapsed, pendingAtCancel, jobs, workerCount, stats, ctxErr, pc, spawned, jobChan,
                 jobChanClosed, resultChan, resultChanClosed, results,
                 result, ret, disp, barrier, factoryCalls, receivedBy,
                 cancelledEarly>>

\* outer select case <-ctx.Done(): return
WorkerCtxDone(w) ==
  /\ wk[w].pc = "select"
  /\ ctxErr # "nil"
  /\ WorkerExit(w, TRUE)
  /\ UNCHANGED <<requested, conv, ov, source, snap, elapsed, pendingAtCancel, jobs, workerCount, stats, ctxErr, pc, spawned, jobChan,
                 jobChanClosed, resultChan, resultChanClosed, results,
                 result, ret, disp, barrier, factoryCalls, receivedBy,
                 cancelledEarly>>

\* variant of GenerateEmit that sends only the Results without an error
GenerateEmitOnlySuccess(w) ==
  /\ wk[w].pc = "generating"
  /\ Len(resultChan) < ChanCap
  /\ \E gen \in GenerateReturns(ctxErr, wk[w].job.Prompt) :
       \E d \in elapsed :
         resultChan' = IF gen.Error = "nil"
                          THEN Append(resultChan,
                                      MakeResult(wk[w].job, gen, d, w))
                          ELSE resultChan
  /\ wk' = [wk EXCEPT ![w].pc = "select", ![w].job = NoJob]
  /\ pendingAtCancel' = pendingAtCancel \ {wk[w].job.ID}
  /\ UNCHANGED <<requested, conv, ov, source, snap, elapsed, jobs, workerCount, stats, ctxErr, pc, spawned,
                 jobChan, jobChanClosed, resultChanClosed, wg, results,
                 result, ret, disp, barrier, factoryCalls, receivedBy,
                 cancelledEarly>>

\* variant of GenerateEmit in which a worker returns after a failed job
GenerateEmitAbort(w) ==
  /\ wk[w].pc = "generating"
  /\ Len(resultChan) < ChanCap
  /\ \E gen \in GenerateReturns(ctxErr, wk[w].job.Prompt) :
       \E d \in elapsed :
         /\ resultChan' = Append(resultChan, MakeResult(wk[w].job, gen, d, w))
         /\ IF gen.Error = "nil"
              THEN /\ wk' = [wk EXCEPT ![w].pc = "select", ![w].job = NoJob]
                   /\ wg' = wg
              ELSE WorkerExit(w, TRUE)
  /\ pendingAtCancel' = pendingAtCancel \ {wk[w].job.ID}
  /\ UNCHANGED <<requested, conv, ov, source, snap, elapsed, jobs, workerCount, stats, ctxErr, pc, spawned,
                 jobChan, jobChanClosed, resultChanClosed, results,
                 result, ret, disp, barrier, factoryCalls, receivedBy,
                 cancelledEarly>>

\* variant of GenerateEmit in which the worker counts the job itself
GenerateEmitCounting(w) ==
  /\ wk[w].pc = "generating"
  /\ Len(resultChan) < ChanCap
  /\ \E gen \in GenerateReturns(ctxErr, wk[w].job.Prompt) :
       \E d \in elapsed :
         resultChan' = Append(resultChan, MakeResult(wk[w].job, gen, d, w))
  /\ wk' = [wk EXCEPT ![w].pc = "select", ![w].job = NoJob]
  /\ pendingAtCancel' = pendingAtCancel \ {wk[w].job.ID}
  /\ stats' = [stats EXCEPT !.CompletedJobs = @ + 1]
  /\ UNCHANGED <<requested, conv, ov, source, snap, elapsed, jobs, workerCount, ctxErr, pc, spawned,
                 jobChan, jobChanClosed, resultChanClosed, wg, results,
                 result, ret, disp, barrier, factoryCalls, receivedBy,
                 cancelledEarly>>

\* client.Generate returns, duration := time.Since(start), the BatchResult
\* is built and the inner select takes case resultChan <- result
GenerateEmit(w) ==
  /\ wk[w].pc = "generating"
  /\ Len(resultChan) < ChanCap
  /\ \E gen \in GenerateReturns(ctxErr, wk[w].job.Prompt) :
       \E d \in elapsed :
         resultChan' = Append(resultChan, MakeResult(wk[w].job, gen, d, w))
  /\ wk' = [wk EXCEPT ![w].pc = "select", ![w].job = NoJob]
  /\ pendingAtCancel' = pendingAtCancel \ {wk[w].job.ID}
  /\ UNCHANGED <<requested, conv, ov, source, snap, elapsed, jobs, workerCount, stats, ctxErr, pc, spawned,
                 jobChan, jobChanClosed, resultChanClosed, wg, results,
                 result, ret, disp, barrier, factoryCalls, receivedBy,
                 cancelledEarly>>

\* variant of GenerateDrop that returns without closing the client
GenerateDropNoClose(w) ==
  /\ wk[w].pc = "generating"
  /\ ctxErr # "nil"
  /\ WorkerExit(w, FALSE)
  /\ pendingAtCancel' = pendingAtCancel \ {wk[w].job.ID}
  /\ UNCHANGED <<requested, conv, ov, source, snap, elapsed, jobs, workerCount, stats, ctxErr, pc, spawned,
                 jobChan, jobChanClosed, resultChan, resultChanClosed,
                 results, result, ret, disp, barrier, factoryCalls,
                 receivedBy, cancelledEarly>>

\* client.Generate returns, the BatchResult is built and the inner select
\* takes case <-ctx.Done(): return without sending the result
GenerateDrop(w) ==
  /\ wk[w].pc = "generating"
  /\ ctxErr # "nil"
  /\ WorkerExit(w, TRUE)
  /\ pendingAtCancel' = pendingAtCancel \ {wk[w].job.ID}
  /\ UNCHANGED <<requested, conv, ov, source, snap, elapsed, jobs, workerCount, stats, ctxErr, pc, spawned,
                 jobChan, jobChanClosed, resultChan, resultChanClosed,
                 results, result, ret, disp, barrier, factoryCalls,
                 receivedBy, cancelledEarly>>

\* ------------------------------------------------------------------ Next
Next ==
  \/ Cancel
  \/ CallAgain
  \/ ProcessJobsEmpty
  \/ ProcessJobsInit
  \/ StartWorker
  \/ StartDispatcher
  \/ StartBarrier
  \/ CollectRecv
  \/ CollectFold
  \/ CollectEnd
  \/ ProcessJobsReturn
  \/ DispatchSend
  \/ DispatchCtxDone
  \/ DispatchEnd
  \/ BarrierClose
  \/ \E w \in Workers : GetClientOk(w)
  \/ \E w \in Workers : GetClientFail(w)
  \/ \E w \in Workers : DrainRecv(w)
  \/ \E w \in Workers : DrainEnd(w)
  \/ \E w \in Workers : WorkerRecv(w)
  \/ \E w \in Workers : WorkerChanClosed(w)
  \/ \E w \in Workers : WorkerCtxDone(w)
  \/ \E w \in Workers : GenerateEmit(w)
  \/ \E w \in Workers : GenerateDrop(w)

Spec == Init /\ [][Next]_vars

\* ----------------------------------------------------------- scheduling
\* the steps of the ProcessJobs goroutine
MainStep ==
  \/ ProcessJobsEmpty
  \/ ProcessJobsInit
  \/ StartWorker
  \/ StartDispatcher
  \/ StartBarrier
  \/ CollectRecv
  \/ CollectFold
  \/ CollectEnd
  \/ ProcessJobsReturn

\* the steps of the dispatcher goroutine
DispatcherStep ==
  \/ DispatchSend
  \/ DispatchCtxDone
  \/ DispatchEnd

\* the steps of worker w, the return of its Generate call among them
WorkerStep(w) ==
  \/ GetClientOk(w)
  \/ GetClientFail(w)
  \/ DrainRecv(w)
  \/ DrainEnd(w)
  \/ WorkerRecv(w)
  \/ WorkerChanClosed(w)
  \/ WorkerCtxDone(w)
  \/ GenerateEmit(w)
  \/ GenerateDrop(w)

\* one ProcessJobs call, the context cancelled at any moment or never
NextRun ==
  \/ Cancel
  \/ MainStep
  \/ DispatcherStep
  \/ BarrierClose
  \/ \E w \in Workers : WorkerStep(w)

\* the Go scheduler runs every goroutine that can take a step, and every
\* Generate call returns
Fairness ==
  /\ WF_vars(MainStep)
  /\ WF_vars(DispatcherStep)
  /\ WF_vars(BarrierClose)
  /\ \A w \in 1..MaxLoad : WF_vars(w \in Workers /\ WorkerStep(w))

\* the values time.Since(start) takes when calls differ in length
Durations == 0..MaxDur

\* NewBatchProcessor and the arguments of one ProcessJobs call whose
\* Generate calls take any of the Durations
InitTimed ==
  /\ \E n \in 0..(MaxLoad - 2) : \E prompts \in [1..n -> Prompts] :
       jobs = JobsFromPrompts(prompts)
  /\ workerCount \in 1..(MaxLoad - 1 - Len(jobs))
  /\ stats = NewStats(workerCount)
  /\ ctxErr = "nil"
  /\ pc = "idle"
  /\ spawned = 0
  /\ jobChan = <<>>
  /\ jobChanClosed = FALSE
  /\ resultChan = <<>>
  /\ resultChanClosed = FALSE
  /\ wg = 0
  /\ results = <<>>
  /\ result = NoResult
  /\ ret = [done |-> FALSE, results |-> <<>>, err |-> "nil"]
  /\ disp = [pc |-> "unborn", i |-> 1]
  /\ barrier = "unborn"
  /\ wk = [w \in 1..workerCount |-> NewWorker]
  /\ factoryCalls = 0
  /\ receivedBy = [j \in 1..Len(jobs) |-> 0]
  /\ cancelledEarly = FALSE
  /\ pendingAtCancel = {}
  /\ snap = NoSnapshot
  /\ ov = NoOverlap
  /\ conv = NoConversation
  /\ requested = workerCount
  /\ source = NoSource
  /\ elapsed = Durations

SpecTimed == InitTimed /\ [][NextRun]_vars

\* NewBatchProcessor and the arguments of one ProcessJobs call whose
\* Generate calls return at once or after MaxDur ticks
InitStats ==
  /\ \E n \in 0..(MaxLoad - 2) : \E prompts \in [1..n -> Prompts] :
       jobs = JobsFromPrompts(prompts)
  /\ workerCount \in 1..(MaxLoad - 1 - Len(jobs))
  /\ stats = NewStats(workerCount)
  /\ ctxErr = "nil"
  /\ pc = "idle"
  /\ spawned = 0
  /\ jobChan = <<>>
  /\ jobChanClosed = FALSE
  /\ resultChan = <<>>
  /\ resultChanClosed = FALSE
  /\ wg = 0
  /\ results = <<>>
  /\ result = NoResult
  /\ ret = [done |-> FALSE, results |-> <<>>, err |-> "nil"]
  /\ disp = [pc |-> "unborn", i |-> 1]
  /\ barrier = "unborn"
  /\ wk = [w \in 1..workerCount |-> NewWorker]
  /\ factoryCalls = 0
  /\ receivedBy = [j \in 1..Len(jobs) |-> 0]
  /\ cancelledEarly = FALSE
  /\ pendingAtCancel = {}
  /\ snap = NoSnapshot
  /\ ov = NoOverlap
  /\ conv = NoConversation
  /\ requested = workerCount
  /\ source = NoSource
  /\ elapsed = {0, MaxDur}

\* one ProcessJobs call with the critical section of the collector loop in
\* its two assignments, and one GetStatistics call at any moment
NextStats ==
  \/ Cancel
  \/ ProcessJobsEmpty
  \/ ProcessJobsInit
  \/ StartWorker
  \/ StartDispatcher
  \/ StartBarrier
  \/ CollectRecv
  \/ CollectFoldCount
  \/ CollectFoldDuration
  \/ CollectEnd
  \/ ProcessJobsReturn
  \/ DispatcherStep
  \/ BarrierClose
  \/ \E w \in Workers : WorkerStep(w)
  \/ GetStatistics

SpecStats == InitStats /\ [][NextStats]_vars

\* ------------------------------------------- createJobsFromPrompts / File
\* the prompt strings of the calls of createJobsFromPrompts
PromptStrings == {<<"a">>, <<" ", "#">>}

\* the contents of the files createJobsFromFile is called on
RECURSIVE Strings(_)
Strings(n) ==
  IF n = 0 THEN {<<>>}
           ELSE Strings(n - 1) \cup
                {Append(str, c) : str \in {t \in Strings(n - 1) : Len(t) = n - 1},
                                  c \in Chars}

\* a call of one of the two functions with its argument; the engine is idle
InitSource ==
  /\ \/ \E n \in 0..MaxPrompts : \E prompts \in [1..n -> PromptStrings] :
          source = [NoSource EXCEPT !.op = "prompts", !.pc = "call",
                                    !.input = prompts]
     \/ \E content \in Strings(MaxFileLen) :
          source = [NoSource EXCEPT !.op = "file", !.pc = "call",
                                    !.input = content]
  /\ jobs = <<>>
  /\ workerCount = 1
  /\ stats = NewStats(1)
  /\ ctxErr = "nil"
  /\ pc = "idle"
  /\ spawned = 0
  /\ jobChan = <<>>
  /\ jobChanClosed = FALSE
  /\ resultChan = <<>>
  /\ resultChanClosed = FALSE
  /\ wg = 0
  /\ results = <<>>
  /\ result = NoResult
  /\ ret = [done |-> FALSE, results |-> <<>>, err |-> "nil"]
  /\ disp = [pc |-> "unborn", i |-> 1]
  /\ barrier = "unborn"
  /\ wk = [w \in 1..1 |-> NewWorker]
  /\ factoryCalls = 0
  /\ receivedBy = <<>>
  /\ cancelledEarly = FALSE
  /\ pendingAtCancel = {}
  /\ elapsed = {1}
  /\ snap = NoSnapshot
  /\ ov = NoOverlap
  /\ conv = NoConversation
  /\ requested = workerCount

\* jobs := createJobsFromPrompts(prompts)
CallCreateJobsFromPrompts ==
  /\ source.op = "prompts" /\ source.pc = "call"
  /\ source' = [source EXCEPT !.pc = "done",
                              !.jobs = createJobsFromPrompts(source.input)]
  /\ UNCHANGED <<engineVars, requested, ov, conv>>

\* file, err := os.Open(filename) fails: return nil, err
OpenFail ==
  /\ source.op = "file" /\ source.pc = "call"
  /\ source' = [source EXCEPT !.pc = "done", !.jobs = NilJobs,
                              !.err = "open"]
  /\ UNCHANGED <<engineVars, requested, ov, conv>>

\* os.Open succeeds; defer file.Close(); scanner := bufio.NewScanner(file)
OpenOk ==
  /\ source.op = "file" /\ source.pc = "call"
  /\ source' = [source EXCEPT !.pc = "scan", !.open = TRUE, !.pos = 1,
                              !.prompts = <<>>]
  /\ UNCHANGED <<engineVars, requested, ov, conv>>

\* variant of ScanLine that keeps the line as read, without TrimSpace
ScanLineNoTrim ==
  /\ source.pc = "scan"
  /\ source.pos <= Len(source.input)
  /\ LET end == LineEnd(source.input, source.pos)
         line == SubSeq(source.input, source.pos, end - 1)
     IN source' = [source EXCEPT
                     !.pos = end + 1,
                     !.prompts = IF line # <<>> /\ ~HasPrefixHash(line)
                                   THEN Append(@, line) ELSE @]
  /\ UNCHANGED <<engineVars, requested, ov, conv>>

\* scanner.Scan() returns true: one iteration of the loop
ScanLine ==
  /\ source.pc = "scan"
  /\ source.pos <= Len(source.input)
  /\ LET end == LineEnd(source.input, source.pos)
         line == TrimSpace(SubSeq(source.input, source.pos, end - 1))
     IN source' = [source EXCEPT
                     !.pos = end + 1,
                     !.prompts = IF line # <<>> /\ ~HasPrefixHash(line)
                                   THEN Append(@, line) ELSE @]
  /\ UNCHANGED <<engineVars, requested, ov, conv>>

\* scanner.Scan() returns false at the end of the file
ScanEOF ==
  /\ source.pc = "scan"
  /\ source.pos > Len(source.input)
  /\ source' = [source EXCEPT !.pc = "return", !.scanErr = FALSE]
  /\ UNCHANGED <<engineVars, requested, ov, conv>>

\* scanner.Scan() returns false because a read failed
ScanFail ==
  /\ source.pc = "scan"
  /\ source' = [source EXCEPT !.pc = "return", !.scanErr = TRUE]
  /\ UNCHANGED <<engineVars, requested, ov, conv>>

\* variant of ScanReturn that hands out the jobs read before the failure
ScanReturnPartial ==
  /\ source.pc = "return"
  /\ source' = [source EXCEPT
                  !.pc = "done", !.open = FALSE,
                  !.jobs = createJobsFromPrompts(source.prompts),
                  !.err = IF source.scanErr THEN "read" ELSE "nil"]
  /\ UNCHANGED <<engineVars, requested, ov, conv>>

\* if err := scanner.Err(); err != nil { return nil, ... }
\* return createJobsFromPrompts(prompts), nil; the deferred file.Close()
ScanReturn ==
  /\ source.pc = "return"
  /\ source' = [source EXCEPT
                  !.pc = "done", !.open = FALSE,
                  !.jobs = IF source.scanErr
                              THEN NilJobs
                              ELSE createJobsFromPrompts(source.prompts),
                  !.err = IF source.scanErr THEN "read" ELSE "nil"]
  /\ UNCHANGED <<engineVars, requested, ov, conv>>

NextSource ==
  \/ CallCreateJobsFromPrompts
  \/ OpenFail
  \/ OpenOk
  \/ ScanLine
  \/ ScanEOF
  \/ ScanFail
  \/ ScanReturn

SpecSource == InitSource /\ [][NextSource]_vars

\* the batch engine of a processor with one worker on which no call is made
IdleEngine ==
  /\ jobs = <<>>
  /\ workerCount = 1
  /\ stats = NewStats(1)
  /\ ctxErr = "nil"
  /\ pc = "idle"
  /\ spawned = 0
  /\ jobChan = <<>>
  /\ jobChanClosed = FALSE
  /\ resultChan = <<>>
  /\ resultChanClosed = FALSE
  /\ wg = 0
  /\ results = <<>>
  /\ result = NoResult
  /\ ret = [done |-> FALSE, results |-> <<>>, err |-> "nil"]
  /\ disp = [pc |-> "unborn", i |-> 1]
  /\ barrier = "unborn"
  /\ wk = [w \in 1..1 |-> NewWorker]
  /\ factoryCalls = 0
  /\ receivedBy = <<>>
  /\ cancelledEarly = FALSE
  /\ pendingAtCancel = {}
  /\ elapsed = {1}
  /\ snap = NoSnapshot
  /\ requested = 1

\* ------------------------------------- two ProcessJobs calls, one processor
\* Each call is the ProcessJobs goroutine alone: its workers hand it, one
\* by one, at most one Result per job, fewer when its context is cancelled.
Calls == {1, 2}

\* the Results a collector loop can receive
ArrivingResults ==
  {[Job |-> NoJob, Response |-> "Response", Duration |-> 1,
    Error |-> "nil", Worker |-> 1],
   [Job |-> NoJob, Response |-> "", Duration |-> 1,
    Error |-> "generation", Worker |-> 1]}

\* two goroutines are about to call ProcessJobs on one new processor
InitOverlap ==
  /\ IdleEngine
  /\ source = NoSource
  /\ conv = NoConversation
  /\ \E n \in [Calls -> 0..(MaxLoad - 2)] :
       ov = [stats |-> NewStats(1),
             call |-> [c \in Calls |->
                         [pc |-> "idle", n |-> n[c], results |-> <<>>]]]

\* call c: len(jobs) == 0, return
OvEmpty(c) ==
  /\ ov.call[c].pc = "idle"
  /\ ov.call[c].n = 0
  /\ ov' = [ov EXCEPT !.call[c].pc = "returned"]
  /\ UNCHANGED <<engineVars, source, conv, requested>>

\* call c: "Initialize statistics"
OvInit(c) ==
  /\ ov.call[c].pc = "idle"
  /\ ov.call[c].n # 0
  /\ ov' = [ov EXCEPT
              !.stats = [NewStats(workerCount) EXCEPT !.TotalJobs = ov.call[c].n],
              !.call[c].pc = "collect"]
  /\ UNCHANGED <<engineVars, source, conv, requested>>

\* call c: the collector loop receives a Result from its own resultChan
OvRecv(c) ==
  /\ ov.call[c].pc = "collect"
  /\ Len(ov.call[c].results) < ov.call[c].n
  /\ \E r \in ArrivingResults :
       ov' = [ov EXCEPT !.call[c].results = Append(@, r),
                        !.call[c].pc = "fold"]
  /\ UNCHANGED <<engineVars, source, conv, requested>>

\* call c: "Update statistics" under bp.mutex
OvFold(c) ==
  /\ ov.call[c].pc = "fold"
  /\ ov' = [ov EXCEPT
              !.stats = FoldStats(@, ov.call[c].results[Len(ov.call[c].results)]),
              !.call[c].pc = "collect"]
  /\ UNCHANGED <<engineVars, source, conv, requested>>

\* call c: its resultChan is closed and drained; "Finalize statistics";
\* return
OvEnd(c) ==
  /\ ov.call[c].pc = "collect"
  /\ ov' = [ov EXCEPT !.stats = FinalizeStats(@),
                      !.call[c].pc = "returned"]
  /\ UNCHANGED <<engineVars, source, conv, requested>>

NextOverlap ==
  \E c \in Calls : OvEmpty(c) \/ OvInit(c) \/ OvRecv(c) \/ OvFold(c) \/ OvEnd(c)

SpecOverlap == InitOverlap /\ [][NextOverlap]_vars

\* NewBatchProcessor called with any worker count, positive or not, and
\* the arguments of the first ProcessJobs call
InitNew ==
  /\ \E n \in 0..(MaxLoad - 1) : \E prompts \in [1..n -> Prompts] :
       jobs = JobsFromPrompts(prompts)
  /\ requested \in (0 - 1)..(MaxLoad - Len(jobs))
  /\ workerCount = NewBatchProcessor(requested).workerCount
  /\ stats = NewBatchProcessor(requested).stats
  /\ ctxErr = "nil"
  /\ pc = "idle"
  /\ spawned = 0
  /\ jobChan = <<>>
  /\ jobChanClosed = FALSE
  /\ resultChan = <<>>
  /\ resultChanClosed = FALSE
  /\ wg = 0
  /\ results = <<>>
  /\ result = NoResult
  /\ ret = [done |-> FALSE, results |-> <<>>, err |-> "nil"]
  /\ disp = [pc |-> "unborn", i |-> 1]
  /\ barrier = "unborn"
  /\ wk = [w \in 1..workerCount |-> NewWorker]
  /\ factoryCalls = 0
  /\ receivedBy = [j \in 1..Len(jobs) |-> 0]
  /\ cancelledEarly = FALSE
  /\ pendingAtCancel = {}
  /\ snap = NoSnapshot
  /\ ov = NoOverlap
  /\ conv = NoConversation
  /\ source = NoSource
  /\ elapsed = {1}

SpecNew == InitNew /\ [][Next]_vars

\* ------------------------------------------------------------ Conversation
\* the ConversationMessage literals of SendMessage; the k-th call sends the
\* user message k
UserMsg(k) == [Role |-> "user", Content |-> <<"message", k>>]

AssistantMsg(response) == [Role |-> "assistant", Content |-> response]

\* buildPrompt: the system prompt if there is one, the history if there is
\* one, the user message
buildPrompt(c, userMessage) ==
  [system |-> c.systemPrompt, previous |-> c.history, user |-> userMessage]

\* the Generator of the tests answers the prompt it is given
MockResponse(prompt) == <<"response to", prompt.user>>

\* variant of trimHistoryIfNeeded that keeps the oldest messages
trimHistoryKeepOldest(maxHistory, messages) ==
  IF maxHistory <= 0 \/ Len(messages) <= maxHistory
    THEN messages
    ELSE SubSeq(messages, 1, maxHistory)

\* trimHistoryIfNeeded: c.messages = c.messages[toRemove:]
trimHistoryIfNeeded(maxHistory, messages) ==
  IF maxHistory <= 0 \/ Len(messages) <= maxHistory
    THEN messages
    ELSE LET toRemove == Len(messages) - maxHistory
         IN SubSeq(messages, toRemove + 1, Len(messages))

\* NewConversation, NewConversationWithSystem or
\* NewConversationWithMaxHistory
InitConv ==
  /\ IdleEngine
  /\ source = NoSource
  /\ ov = NoOverlap
  /\ \E h \in (0 - 1)..MaxHistory : \E sys \in {"", "be brief"} :
       /\ conv = [NoConversation EXCEPT !.maxHistory = h,
                                        !.systemPrompt = sys]

\* c.messages = make([]ConversationMessage, 0)
ClearHistory ==
  /\ conv' = [conv EXCEPT !.history = <<>>, !.op = "clear"]
  /\ UNCHANGED <<engineVars, source, ov, requested>>

\* SendMessage: c.client == nil and xollm.GetClient fails
SendMessageNoClient ==
  /\ conv.calls < MaxCalls
  /\ conv.client = "nil"
  /\ conv' = [conv EXCEPT !.calls = @ + 1, !.op = "send",
                          !.response = "", !.err = "client"]
  /\ UNCHANGED <<engineVars, source, ov, requested>>

\* variant of SendMessageGenerateFails that has appended the user message
SendMessageGenerateFailsKeepsUser ==
  /\ conv.calls < MaxCalls
  /\ conv' = [conv EXCEPT !.calls = @ + 1, !.op = "send",
                          !.client = "open",
                          !.history = Append(@, UserMsg(conv.calls + 1)),
                          !.response = "", !.err = "generate"]
  /\ UNCHANGED <<engineVars, source, ov, requested>>

\* SendMessage: the client exists or is created, c.client.Generate fails
SendMessageGenerateFails ==
  /\ conv.calls < MaxCalls
  /\ conv' = [conv EXCEPT !.calls = @ + 1, !.op = "send",
                          !.client = "open",
                          !.response = "", !.err = "generate"]
  /\ UNCHANGED <<engineVars, source, ov, requested>>

\* variant of SendMessageOk that opens the history with the system prompt
SendMessageOkWithSystem ==
  /\ conv.calls < MaxCalls
  /\ LET userMessage == <<"message", conv.calls + 1>>
         response == MockResponse(buildPrompt(conv, userMessage))
     IN conv' = [conv EXCEPT
                   !.calls = @ + 1, !.op = "send", !.client = "open",
                   !.history = trimHistoryIfNeeded(conv.maxHistory,
                                 Append(Append(IF conv.systemPrompt # "" /\ @ = <<>>
                                                 THEN <<[Role |-> "system",
                                                         Content |-> conv.systemPrompt]>>
                                                 ELSE @,
                                               UserMsg(conv.calls + 1)),
                                        AssistantMsg(response))),
                   !.response = response, !.err = "nil"]
  /\ UNCHANGED <<engineVars, source, ov, requested>>

\* SendMessage: Generate succeeds; both messages are appended and the
\* history is trimmed
SendMessageOk ==
  /\ conv.calls < MaxCalls
  /\ LET userMessage == <<"message", conv.calls + 1>>
         response == MockResponse(buildPrompt(conv, userMessage))
     IN conv' = [conv EXCEPT
                   !.calls = @ + 1, !.op = "send", !.client = "open",
                   !.history = trimHistoryIfNeeded(conv.maxHistory,
                                 Append(Append(@, UserMsg(conv.calls + 1)),
                                        AssistantMsg(response))),
                   !.response = response, !.err = "nil"]
  /\ UNCHANGED <<engineVars, source, ov, requested>>

NextConv ==
  \/ ClearHistory
  \/ SendMessageNoClient
  \/ SendMessageGenerateFails
  \/ SendMessageOk

SpecConv == InitConv /\ [][NextConv]_vars

SpecFair == Init /\ [][NextRun]_vars /\ Fairness

TypeOK ==
  /\ ctxErr \in {"nil"} \cup CtxErrors
  /\ wg \in 0..workerCount
  /\ Len(jobChan) <= ChanCap
  /\ Len(resultChan) <= ChanCap

\* the sends of the workers never wait for room: at most one Result per job
ResultChanHasRoom ==
  Len(resultChan) + Cardinality({w \in Workers : wk[w].pc = "generating"})
    <= ChanCap

\* ---------------------------------------------------------------- claims
Returned == pc = "returned"

NonEmpty == Len(jobs) > 0

NeverCancelled == ctxErr = "nil"

JobIDs == 1..Len(jobs)

\* positions of the returned collection that hold a Result of job j
ResultsOf(j) == {i \in 1..Len(ret.results) : ret.results[i].Job.ID = j}

OneResultPerJob ==
  /\ Len(ret.results) = Len(jobs)
  /\ \A j \in JobIDs : Cardinality(ResultsOf(j)) = 1

Failed(r) == r.Error # "nil"

AllClientsOk == \A w \in Workers : wk[w].client \in {"open", "closed"}

AllClientsFailed == \A w \in Workers : wk[w].client = "failed"

\* C1: a run over a non-empty job list whose context was never cancelled
\* returns exactly one Result per submitted job, for every worker count.
C1_ExactlyOneResultPerJob ==
  (Returned /\ NonEmpty /\ NeverCancelled) => OneResultPerJob

C1_Witness ==
  /\ Returned /\ NeverCancelled /\ OneResultPerJob
  /\ Len(jobs) >= 2 /\ workerCount >= 2
  /\ \E i, k \in 1..Len(ret.results) :
       ret.results[i].Worker # ret.results[k].Worker

\* C2: when any run returns, cancelled or not, completed_jobs + failed_jobs
\* equals the length of the collection it returns.
C2_Accounting ==
  Returned => stats.CompletedJobs + stats.FailedJobs = Len(ret.results)

\* C2, restricted to runs over a non-empty job list
C2_AccountingNonEmpty ==
  (Returned /\ NonEmpty) =>
     stats.CompletedJobs + stats.FailedJobs = Len(ret.results)

C2_Witness ==
  /\ Returned /\ NonEmpty /\ ~NeverCancelled
  /\ Len(ret.results) > 0 /\ Len(ret.results) < Len(jobs)
  /\ stats.CompletedJobs > 0 /\ stats.FailedJobs > 0

\* C3: in a run that was not cancelled and whose workers all obtained a
\* client, a Result carries an error exactly when the Generate call for its
\* own job fails, whatever the other jobs of the run do and whichever
\* worker handled it.
C3_FailureIsolation ==
  (Returned /\ NonEmpty /\ NeverCancelled /\ AllClientsOk) =>
     \A i \in 1..Len(ret.results) :
        LET r == ret.results[i] IN
          /\ r.Job.ID \in JobIDs
          /\ Failed(r) <=> Failed(GenerateFunc(jobs[r.Job.ID].Prompt))

C3_Witness ==
  /\ Returned /\ NeverCancelled /\ AllClientsOk
  /\ \E i, k \in 1..Len(ret.results) :
       /\ Failed(ret.results[i]) /\ ~Failed(ret.results[k])
       /\ ret.results[i].Worker = ret.results[k].Worker

C5_EmptyRun ==
  (Returned /\ ~NonEmpty) =>
     /\ ret.results = <<>>
     /\ ret.err = "nil"
     /\ factoryCalls = 0
     /\ \A w \in Workers : wk[w].pc = "unborn"
     /\ disp.pc = "unborn"
     /\ barrier = "unborn"

C5_Witness == Returned /\ ~NonEmpty /\ cancelledEarly /\ ret.done

\* C6: when the factory fails in every worker and the run is not cancelled,
\* every job has exactly one Result, each carrying the setup failure, and
\* the run ends with failed_jobs = len(jobs), completed_jobs = 0, nil error.
C6_AllFactoriesFail ==
  (Returned /\ NonEmpty /\ NeverCancelled /\ AllClientsFailed) =>
     /\ OneResultPerJob
     /\ \A i \in 1..Len(ret.results) : ret.results[i].Error = "setup"
     /\ stats.FailedJobs = Len(jobs)
     /\ stats.CompletedJobs = 0
     /\ ret.err = "nil"

C6_Witness ==
  /\ Returned /\ NeverCancelled /\ AllClientsFailed
  /\ Len(jobs) >= 2 /\ workerCount >= 2
  /\ stats.FailedJobs = Len(jobs)

\* C7: when the factory fails in some workers and succeeds in others and the
\* run is not cancelled, every job has exactly one Result, a Result carries
\* the setup failure exactly when a worker without a client received its
\* job, and the other Results are what Generate returns for their jobs.
C7_MixedFactories ==
  (Returned /\ NonEmpty /\ NeverCancelled
     /\ ~AllClientsOk /\ ~AllClientsFailed) =>
     /\ OneResultPerJob
     /\ \A i \in 1..Len(ret.results) :
          LET r == ret.results[i]
              by == receivedBy[r.Job.ID]
          IN /\ by \in Workers
             /\ (r.Error = "setup") <=> (wk[by].client = "failed")
             /\ wk[by].client # "failed" =>
                  /\ r.Error = GenerateFunc(jobs[r.Job.ID].Prompt).Error
                  /\ r.Response = GenerateFunc(jobs[r.Job.ID].Prompt).Response

C7_Witness ==
  /\ Returned /\ NeverCancelled /\ OneResultPerJob
  /\ \E i, k \in 1..Len(ret.results) :
       /\ ret.results[i].Error = "setup"
       /\ ret.results[k].Error = "nil"

\* C8: the error a run over a non-empty job list returns is the context's
\* error at the moment of the return, however many jobs failed.
C8_RunErrorIsCtxErr ==
  [][(pc = "return" /\ pc' = "returned") => ret'.err = ctxErr]_vars

C8_Witness ==
  /\ Returned /\ NonEmpty
  /\ ret.err = "nil"
  /\ stats.FailedJobs = Len(jobs)
  /\ ~NeverCancelled

\* C9: a run that returns fewer Results than jobs returns a non-nil error.
C9_OnlyCancellationShortens ==
  (Returned /\ Len(ret.results) < Len(jobs)) => ret.err # "nil"

C9_Witness ==
  /\ Returned /\ NonEmpty
  /\ ret.results = <<>>
  /\ ret.err = "Canceled"
  /\ AllClientsOk

\* C10: when every Generate call fails and the context is not cancelled the
\* run returns one Result per job, each carrying a failure, and a nil error.
C10_FailuresDoNotAbort ==
  (Returned /\ NonEmpty /\ NeverCancelled
     /\ \A j \in JobIDs : Failed(GenerateFunc(jobs[j].Prompt))) =>
     /\ OneResultPerJob
     /\ \A i \in 1..Len(ret.results) : Failed(ret.results[i])
     /\ ret.err = "nil"

C10_Witness ==
  /\ Returned /\ NeverCancelled /\ AllClientsOk
  /\ Len(jobs) >= 2
  /\ Len(ret.results) = Len(jobs)
  /\ \A i \in 1..Len(ret.results) : ret.results[i].Error = "generation"

\* the jobs the dispatcher has written onto jobChan
Dispatched == 1..(disp.i - 1)

C12_NoReceiveAfterCancel ==
  [][(ctxErr # "nil" /\ pc # "returned") => receivedBy' = receivedBy]_vars

\* C13: a job whose Generate call is in flight when the context is
\* cancelled is not discarded: when the call returns its Result is sent to
\* the collector.
C13_InFlightDelivered ==
  [][\A j \in pendingAtCancel :
        j \in InFlight' \/
        /\ Len(resultChan') = Len(resultChan) + 1
        /\ resultChan'[Len(resultChan')].Job.ID = j]_vars

\* C14: once the context is cancelled the dispatcher writes no further job
\* onto jobChan.
C14_NoEnqueueAfterCancel ==
  [][ctxErr # "nil" => disp'.i <= disp.i]_vars

\* C15: a client obtained from the factory is closed exactly once on every
\* exit path of its worker and before ProcessJobs returns, Generate is
\* never in flight on a closed client, and a worker whose factory call
\* failed closes nothing.
C15_ClientClosedOnce ==
  /\ \A w \in Workers :
       /\ wk[w].closes <= 1
       /\ wk[w].client = "closed" <=> wk[w].closes = 1
       /\ (wk[w].pc = "done" /\ wk[w].client # "failed") =>
             wk[w].client = "closed"
       /\ wk[w].client = "closed" => wk[w].pc = "done"
       /\ wk[w].pc = "generating" => wk[w].client = "open"
       /\ wk[w].client = "failed" => wk[w].closes = 0
  /\ (Returned /\ NonEmpty) => \A w \in Workers : wk[w].pc = "done"

\* a run in which one worker left through the ctx.Done case of the inner
\* select (its job has no Result), one had no client and one saw jobChan
\* closed or the context done while waiting
C15_Witness ==
  /\ Returned /\ NonEmpty
  /\ \E j \in JobIDs :
       /\ receivedBy[j] # 0
       /\ wk[receivedBy[j]].client = "closed"
       /\ ResultsOf(j) = {}
  /\ \E w \in Workers : wk[w].client = "failed"

\* C16: under fair scheduling, with every Generate call returning, every
\* call of ProcessJobs returns, whether or not the context is cancelled and
\* the factories fail: the dispatcher finishes, all workers exit, resultChan
\* is closed and drained, and resultChan always has room for the Results of
\* the calls in flight, so no worker waits to send.
C16_AlwaysReturns ==
  /\ (pc = "idle") ~> Returned
  /\ (disp.pc = "loop") ~> (disp.pc = "done")
  /\ [](ResultChanHasRoom)
  /\ []((Returned /\ NonEmpty) =>
          /\ \A w \in Workers : wk[w].pc = "done"
          /\ resultChanClosed
          /\ resultChan = <<>>)

C16_Witness ==
  /\ Returned /\ NonEmpty /\ ~NeverCancelled
  /\ disp.pc = "done"
  /\ \E w \in Workers : wk[w].client = "failed"
  /\ \E w \in Workers : wk[w].client = "closed"
  /\ Len(ret.results) < Len(jobs)

\* C17: at the end of every run with total_jobs > 0, cancelled or not,
\* AverageDuration is the integer quotient of TotalDuration by TotalJobs,
\* the number of jobs submitted.
C17_AverageIsQuotient ==
  (Returned /\ NonEmpty) =>
     /\ stats.Ended
     /\ stats.TotalJobs = Len(jobs)
     /\ 0 <= stats.TotalDuration - stats.AverageDuration * stats.TotalJobs
     /\ stats.TotalDuration - stats.AverageDuration * stats.TotalJobs
          < stats.TotalJobs

C17_Witness ==
  /\ Returned /\ ret.err # "nil"
  /\ Len(ret.results) < stats.TotalJobs
  /\ stats.AverageDuration > 0
  /\ stats.TotalDuration - stats.AverageDuration * stats.TotalJobs > 0

\* what GetStatistics returns: a copy of bp.stats taken under bp.mutex
Snapshot == stats

\* the Results the collector loop has folded into the statistics
Folded == Len(results) - (IF pc = "fold" THEN 1 ELSE 0)

\* a ProcessJobs call has started, and may have returned
InRun == pc # "idle"

SnapshotOK ==
  /\ Snapshot.CompletedJobs + Snapshot.FailedJobs = Folded
  /\ Snapshot.CompletedJobs + Snapshot.FailedJobs <= Snapshot.TotalJobs
  /\ Snapshot.TotalJobs = Len(jobs)
  /\ Snapshot.WorkerCount = workerCount
  /\ (Returned /\ NeverCancelled) =>
        Snapshot.CompletedJobs + Snapshot.FailedJobs = Snapshot.TotalJobs

\* C18: in every state of a run a statistics snapshot has CompletedJobs +
\* FailedJobs equal to the number of Results folded so far, a sum that never
\* decreases and never exceeds TotalJobs, TotalJobs = len(jobs) and
\* WorkerCount = W; at the end of a run that was not cancelled the sum is
\* TotalJobs.
C18_SnapshotInvariant ==
  [][InRun' =>
       /\ SnapshotOK'
       /\ InRun =>
            Snapshot'.CompletedJobs + Snapshot'.FailedJobs >=
              Snapshot.CompletedJobs + Snapshot.FailedJobs]_vars

\* the sum of the Duration fields of a sequence of Results
RECURSIVE SumDurations(_)
SumDurations(rs) ==
  IF rs = <<>> THEN 0 ELSE Head(rs).Duration + SumDurations(Tail(rs))

\* how many Results of a sequence carry an error (TRUE) or none (FALSE)
CountResults(rs, failed) ==
  Cardinality({i \in 1..Len(rs) : Failed(rs[i]) = failed})

\* C19: at run end the statistics are the fold of the returned Results:
\* CompletedJobs counts those without an error, FailedJobs those with one,
\* and TotalDuration is the sum of their durations.
C19_StatsAreFoldOfResults ==
  Returned =>
     /\ stats.CompletedJobs = CountResults(ret.results, FALSE)
     /\ stats.FailedJobs = CountResults(ret.results, TRUE)
     /\ stats.TotalDuration = SumDurations(ret.results)

\* C20: every ProcessJobs invocation, one with an empty job list included,
\* starts by replacing bp.stats with a fresh Statistics value that carries
\* nothing over from an earlier run.
C20_FreshStatsEveryCall ==
  [][(pc = "idle" /\ pc' # "idle") =>
        stats' = [NewStats(workerCount) EXCEPT !.TotalJobs = Len(jobs)]]_vars

\* the number of Results a returned snapshot accounts for
SnapK == snap.stats.CompletedJobs + snap.stats.FailedJobs

\* C21: a snapshot returned by GetStatistics at any point of a run is the
\* statistics after folding exactly k Results, for some k: its counters sum
\* to k and its TotalDuration is the sum of those k durations; it stays so
\* while the collector folds further Results.
C21_SnapshotUntorn ==
  snap.taken =>
     /\ SnapK <= Len(results)
     /\ snap.stats.CompletedJobs =
          CountResults(SubSeq(results, 1, SnapK), FALSE)
     /\ snap.stats.FailedJobs =
          CountResults(SubSeq(results, 1, SnapK), TRUE)
     /\ snap.stats.TotalDuration = SumDurations(SubSeq(results, 1, SnapK))

C21_Witness ==
  /\ snap.taken /\ ~snap.stats.Ended
  /\ SnapK > 0 /\ snap.stats.TotalDuration > 0
  /\ stats.CompletedJobs + stats.FailedJobs > SnapK
  /\ stats.TotalDuration > snap.stats.TotalDuration

\* C22: a snapshot read in the middle of a run reports AverageDuration as
\* the average over the Results received at that moment; one read at the
\* end of the run reports the average over all jobs.
C22_MidRunAverage ==
  snap.taken =>
     IF snap.stats.Ended
       THEN snap.stats.AverageDuration =
              snap.stats.TotalDuration \div snap.stats.TotalJobs
       ELSE SnapK > 0 =>
              snap.stats.AverageDuration = snap.stats.TotalDuration \div SnapK

\* the number a string of decimal digits stands for
RECURSIVE ParseDecimal(_)
ParseDecimal(ds) ==
  IF ds = <<>> THEN 0
  ELSE ParseDecimal(SubSeq(ds, 1, Len(ds) - 1)) * 10 +
       (CHOOSE d \in 0..9 : DigitChars[d + 1] = ds[Len(ds)])

\* id is "job-" followed by the decimal numeral of n
IsJobID(id, n) ==
  /\ Len(id) > 4
  /\ SubSeq(id, 1, 4) = <<"j", "o", "b", "-">>
  /\ \A k \in 5..Len(id) : \E d \in 1..10 : DigitChars[d] = id[k]
  /\ id[5] = "0" => Len(id) = 5
  /\ ParseDecimal(SubSeq(id, 5, Len(id))) = n

\* the lines of a text: the pieces between newlines, a final newline ends
\* the last line
RECURSIVE SplitLines(_)
SplitLines(content) ==
  IF content = <<>> THEN <<>>
  ELSE <<SubSeq(content, 1, LineEnd(content, 1) - 1)>> \o
       SplitLines(SubSeq(content, LineEnd(content, 1) + 1, Len(content)))

TrimmedLines(content) ==
  [i \in 1..Len(SplitLines(content)) |-> TrimSpace(SplitLines(content)[i])]

Kept(line) == line # <<>> /\ Head(line) # "#"

PromptsCallDone == source.op = "prompts" /\ source.pc = "done"

FileCallDone == source.op = "file" /\ source.pc = "done"

\* C23: createJobsFromPrompts maps n prompts to n jobs in the same order;
\* the job at 1-based position i has the ID job-i, the i-th prompt unchanged
\* and a non-nil metadata map; the IDs are pairwise distinct.
C23_JobsFromPrompts ==
  PromptsCallDone =>
     /\ ~source.jobs.isNil
     /\ Len(source.jobs.items) = Len(source.input)
     /\ \A i \in 1..Len(source.input) :
          /\ IsJobID(source.jobs.items[i].ID, i)
          /\ source.jobs.items[i].Prompt = source.input[i]
          /\ ~source.jobs.items[i].Metadata.isNil
     /\ \A i, k \in 1..Len(source.jobs.items) :
          i # k => source.jobs.items[i].ID # source.jobs.items[k].ID

C23_Witness ==
  /\ PromptsCallDone
  /\ Len(source.jobs.items) >= 10
  /\ \E i, k \in 1..Len(source.input) : source.input[i] # source.input[k]

\* C24: createJobsFromFile yields one job per line that, trimmed of
\* surrounding whitespace, is neither empty nor starts with '#'; the kept
\* lines keep their order, the prompt is the trimmed line and the IDs run
\* job-1..job-k over the kept lines.
C24_JobsFromFile ==
  (FileCallDone /\ source.err = "nil") =>
     /\ ~source.jobs.isNil
     /\ Len(source.jobs.items) =
          Len(SelectSeq(TrimmedLines(source.input), Kept))
     /\ \A i \in 1..Len(source.jobs.items) :
          /\ source.jobs.items[i].Prompt =
               SelectSeq(TrimmedLines(source.input), Kept)[i]
          /\ IsJobID(source.jobs.items[i].ID, i)

C24_Witness ==
  /\ FileCallDone /\ source.err = "nil"
  /\ Len(source.jobs.items) >= 2
  /\ \E i \in 1..Len(SplitLines(source.input)) :
       /\ SplitLines(source.input)[i] # TrimmedLines(source.input)[i]
       /\ Kept(TrimmedLines(source.input)[i])
  /\ \E i \in 1..(Len(SplitLines(source.input)) - 1) :
       /\ ~Kept(TrimmedLines(source.input)[i])
       /\ \E k \in 1..Len(source.jobs.items) :
            source.jobs.items[k].Prompt = TrimmedLines(source.input)[i + 1]

\* C25: when the file cannot be opened or a read fails part-way,
\* createJobsFromFile returns one error and a nil job list, never the jobs
\* of the lines read before the failure.
C25_NoPartialJobs ==
  (FileCallDone /\ source.err # "nil") =>
     /\ source.jobs.isNil
     /\ source.jobs.items = <<>>

C25_Witness ==
  /\ FileCallDone /\ source.err = "read"
  /\ source.prompts # <<>>
  /\ source.pos <= Len(source.input)
  /\ source.jobs.isNil

\* the Result a step appends to resultChan
Emitted == resultChan'[Len(resultChan')]

\* C26: a Result of a Generate call is written to resultChan only by the
\* step in which that call, in flight until then, returns, and its Response
\* and Error are what the call returned; only a worker without a client
\* writes a Result that no Generate call produced.
C26_CausalCompletion ==
  [][Len(resultChan') > Len(resultChan) =>
       \/ /\ wk[Emitted.Worker].client = "failed"
          /\ Emitted = SetupResult(Emitted.Job, Emitted.Worker)
       \/ /\ wk[Emitted.Worker].pc = "generating"
          /\ wk[Emitted.Worker].job = Emitted.Job
          /\ wk'[Emitted.Worker].pc # "generating"
          /\ [Response |-> Emitted.Response, Error |-> Emitted.Error]
               \in GenerateReturns(ctxErr, Emitted.Job.Prompt)]_vars

C26_Witness ==
  \E i, k \in 1..Len(resultChan) :
     /\ resultChan[i].Error \in CtxErrors
     /\ resultChan[k].Response = "Response"
     /\ \E w \in Workers : wk[w].pc = "generating"

AllWorkersDone == \A w \in Workers : wk[w].pc = "done"

\* C27: resultChan is closed once, by the barrier goroutine and only after
\* all workers have exited; it stays closed for the rest of the call and no
\* worker sends on it after the close.
C27_ResultChanClosedByBarrier ==
  /\ [](resultChanClosed => (barrier = "done" /\ wg = 0 /\ AllWorkersDone))
  /\ []((Returned /\ NonEmpty) => resultChanClosed)
  /\ [][/\ (~resultChanClosed /\ resultChanClosed') =>
              (barrier = "wait" /\ barrier' = "done" /\ wk' = wk)
        /\ (resultChanClosed /\ pc' # "idle") =>
              (resultChanClosed' /\ Len(resultChan') <= Len(resultChan))]_vars

C27_Witness ==
  /\ resultChanClosed /\ ctxErr # "nil"
  /\ Len(resultChan) >= 2
  /\ \E w \in Workers : wk[w].client = "failed"
  /\ \E w \in Workers : wk[w].client = "closed"

\* C28: the dispatcher closes jobChan once on each of its exit paths, all
\* jobs sent or cancelled mid-feed, and never sends afterwards; once jobChan
\* is closed every worker eventually exits.
C28_JobChanClosedByDispatcher ==
  /\ [](disp.pc = "done" <=> jobChanClosed)
  /\ [][/\ (~jobChanClosed /\ jobChanClosed') =>
              (disp.pc = "loop" /\ disp'.pc = "done")
        /\ jobChanClosed =>
              (jobChanClosed' /\ Len(jobChan') <= Len(jobChan))]_vars
  /\ (disp.pc = "loop") ~> jobChanClosed
  /\ jobChanClosed ~> AllWorkersDone

C28_Witness ==
  /\ jobChanClosed /\ disp.i <= Len(jobs)
  /\ AllWorkersDone
  /\ \E w \in Workers : wk[w].client = "failed"
  /\ \E j \in JobIDs : receivedBy[j] # 0

\* the workers whose client has a Generate call in flight
Generating == {w \in Workers : wk[w].pc = "generating"}

\* C29: every Generate call in flight is made by one worker on the client
\* that worker built, for a job that worker received; a worker receives its
\* next job only when it has no call in flight, so there is at most one
\* call per client and at most W calls in all.
C29_OneCallPerClient ==
  /\ [](\A w \in Generating :
          /\ wk[w].client = "open"
          /\ wk[w].job \in {jobs[j] : j \in JobIDs}
          /\ receivedBy[wk[w].job.ID] = w)
  /\ [](\A v, w \in Generating : v # w => wk[v].job.ID # wk[w].job.ID)
  /\ [](Cardinality(InFlight) = Cardinality(Generating)
        /\ Cardinality(Generating) <= workerCount)
  /\ [][\A w \in Workers :
          (w \in Generating /\ w \in Generating') => wk'[w].job = wk[w].job]_vars

C29_Witness ==
  \E w \in Generating : \E j \in JobIDs :
     /\ j # wk[w].job.ID
     /\ receivedBy[j] = w
     /\ Cardinality(Generating) <= workerCount

\* C30: in a run with a non-empty job list the factory is called once by
\* each worker, before that worker receives a job and whether or not there
\* are fewer jobs than workers: W calls in all, none repeated after a
\* failure.
C30_FactoryOncePerWorker ==
  /\ factoryCalls = Cardinality({w \in Workers : wk[w].client # "none"})
  /\ \A w \in Workers : wk[w].pc \in {"unborn", "getClient"} <=>
                          wk[w].client = "none"
  /\ \A j \in JobIDs : receivedBy[j] # 0 => wk[receivedBy[j]].client # "none"
  /\ (Returned /\ NonEmpty) => factoryCalls = workerCount

C30_Witness ==
  /\ Returned /\ NonEmpty
  /\ Len(jobs) < workerCount
  /\ factoryCalls = workerCount
  /\ \E w \in Workers : wk[w].client = "failed"
  /\ \E w \in Workers : wk[w].client = "closed"

\* the counters of the statistics
Counters(s) == <<s.CompletedJobs, s.FailedJobs, s.TotalDuration>>

\* C31: the steps of the dispatcher and of the workers leave bp.stats as it
\* is; within a run the counters change only in the fold step of the
\* collector loop, by one Result at a time.
C31_SingleWriter ==
  [][/\ (pc' # "idle" /\ (wk' # wk \/ disp' # disp \/ jobChan' # jobChan
                           \/ Len(resultChan') > Len(resultChan)))
          => stats' = stats
     /\ (pc # "idle" /\ Counters(stats') # Counters(stats))
          => /\ pc = "fold" /\ pc' = "collect"
             /\ stats' = FoldStats(stats, result)
             /\ stats'.CompletedJobs + stats'.FailedJobs =
                  stats.CompletedJobs + stats.FailedJobs + 1
             /\ wk' = wk /\ disp' = disp]_vars

C31_Witness ==
  /\ pc = "collect"
  /\ stats.CompletedJobs >= 1 /\ stats.FailedJobs >= 1
  /\ \E w \in Workers : wk[w].pc = "generating"

\* C32: in every run, cancelled or not, each returned Result carries one of
\* the submitted jobs unchanged, no job has more than one Result, so that
\* len(results) <= len(jobs), and the Worker field is the ID in 1..W of the
\* worker that received the job.
C32_ResultsReferenceJobs ==
  Returned =>
     /\ Len(ret.results) <= Len(jobs)
     /\ \A j \in JobIDs : Cardinality(ResultsOf(j)) <= 1
     /\ \A i \in 1..Len(ret.results) :
          /\ ret.results[i].Job.ID \in JobIDs
          /\ ret.results[i].Job = jobs[ret.results[i].Job.ID]
          /\ ret.results[i].Worker \in Workers
          /\ ret.results[i].Worker = receivedBy[ret.results[i].Job.ID]

C32_Witness ==
  /\ Returned /\ ctxErr # "nil"
  /\ Len(ret.results) >= 1 /\ Len(ret.results) < Len(jobs)
  /\ \E i \in 1..Len(ret.results) : ret.results[i].Worker = 2

\* the Results of the current call: those in resultChan and those collected
RunResults ==
  {resultChan[i] : i \in 1..Len(resultChan)} \cup
  {results[i] : i \in 1..Len(results)}

\* the failure category read off a failed Result alone
Category(r) ==
  IF r.Error = "setup" THEN "setup"
  ELSE IF r.Error \in CtxErrors THEN "cancellation"
  ELSE "generation"

Received == {j \in JobIDs : receivedBy[j] # 0}

\* C34: jobs leave jobChan in submission order: a job is received only
\* after every job before it in the submitted list has been received, and
\* the jobs dispatched, in a cancelled run too, are a prefix of the list,
\* waiting in jobChan in that order.
C34_SubmissionOrder ==
  /\ \A i, j \in JobIDs : (i < j /\ j \in Received) => i \in Received
  /\ disp.i \in 1..(Len(jobs) + 1)
  /\ Received \cup {jobChan[k].ID : k \in 1..Len(jobChan)} = Dispatched
  /\ \A k \in 1..Len(jobChan) :
       jobChan[k] = jobs[Cardinality(Received) + k]

C34_Witness ==
  /\ Returned /\ ctxErr # "nil"
  /\ disp.pc = "done" /\ disp.i <= Len(jobs)
  /\ Received # {} /\ jobChan # <<>>

\* the counters of s are the fold of the Results call c has folded so far
IsFoldOf(s, c) ==
  /\ s.TotalJobs = ov.call[c].n
  /\ \E k \in 0..Len(ov.call[c].results) :
       /\ s.CompletedJobs = CountResults(SubSeq(ov.call[c].results, 1, k), FALSE)
       /\ s.FailedJobs = CountResults(SubSeq(ov.call[c].results, 1, k), TRUE)
       /\ s.TotalDuration = SumDurations(SubSeq(ov.call[c].results, 1, k))

\* C35: when either of two ProcessJobs calls that overlap on one processor
\* returns, the statistics of the processor have CompletedJobs + FailedJobs
\* <= TotalJobs and are the fold of the Results of one of the calls.
C35_OverlapKeepsStatistics ==
  [][\A c \in Calls :
       (ov.call[c].pc = "collect" /\ ov'.call[c].pc = "returned") =>
          /\ ov'.stats.CompletedJobs + ov'.stats.FailedJobs
               <= ov'.stats.TotalJobs
          /\ \E d \in Calls : IsFoldOf(ov.stats, d)']_vars

\* C36: NewBatchProcessor turns a worker count <= 0 into 1 and keeps a
\* positive one; the new processor reports that count and no completed or
\* failed job, and GetWorkerCount stays the same over all runs.
C36_WorkerCountNormalised ==
  /\ stats = NewStats(workerCount)
  /\ [](/\ workerCount >= 1
        /\ requested >= 1 => workerCount = requested
        /\ requested <= 0 => workerCount = 1)
  /\ [][workerCount' = workerCount]_vars

C36_Witness ==
  /\ requested <= 0
  /\ Returned /\ NonEmpty
  /\ workerCount = 1 /\ stats.WorkerCount = 1
  /\ stats.CompletedJobs >= 1

\* a SendMessage call returns in this step
SendReturns == conv'.calls = conv.calls + 1

\* the history of the step with both messages of the call appended
Extended ==
  Append(Append(conv.history, UserMsg(conv.calls + 1)),
         AssistantMsg(conv'.response))

\* short holds the last Len(short) elements of long, in their order
IsSuffix(short, long) ==
  /\ Len(short) <= Len(long)
  /\ \A i \in 1..Len(short) : short[i] = long[Len(long) - Len(short) + i]

\* C37: a SendMessage call that fails, at the client construction or in
\* Generate, returns an empty response and leaves the history as it was;
\* a successful call appends the user message and then the response.
C37_FailedSendKeepsHistory ==
  [][SendReturns =>
       IF conv'.err # "nil"
         THEN conv'.response = "" /\ conv'.history = conv.history
         ELSE /\ conv'.history # <<>>
              /\ conv'.history[Len(conv'.history)] =
                   AssistantMsg(conv'.response)
              /\ IsSuffix(conv'.history, Extended)
              /\ conv.maxHistory <= 0 => conv'.history = Extended]_vars

C37_Witness ==
  /\ conv.op = "send" /\ conv.err = "generate"
  /\ conv.response = ""
  /\ Len(conv.history) >= 2

\* C38: with maxHistory > 0 the history never has more than maxHistory
\* messages and a trimmed history holds the most recent messages in their
\* order; with maxHistory = 0 nothing is trimmed; ClearHistory leaves an
\* empty history.
C38_HistoryBounded ==
  /\ [](conv.maxHistory > 0 => Len(conv.history) <= conv.maxHistory)
  /\ [](conv.op = "clear" => conv.history = <<>>)
  /\ [][(SendReturns /\ conv'.err = "nil") =>
          /\ IsSuffix(conv'.history, Extended)
          /\ Len(conv'.history) =
               IF conv.maxHistory > 0 /\ Len(Extended) > conv.maxHistory
                 THEN conv.maxHistory
                 ELSE Len(Extended)]_vars

C38_Witness ==
  /\ conv.maxHistory > 0
  /\ Len(conv.history) = conv.maxHistory
  /\ conv.history[1].Content # <<"message", 1>>
  /\ conv.history[Len(conv.history)].Content =
       <<"response to", <<"message", conv.calls>>>>

\* the history is a sequence of complete turns
CompleteTurns ==
  /\ Len(conv.history) % 2 = 0
  /\ \A i \in 1..Len(conv.history) :
       conv.history[i].Role = IF i % 2 = 1 THEN "user" ELSE "assistant"

\* C39: after any sequence of Conversation operations, for every
\* maxHistory, the history is a sequence of complete turns: user and
\* assistant alternate from a user message on, the length is even and no
\* message has the role "system".
C39_CompleteTurns == CompleteTurns

\* C39 as amended: no message has the role "system", user and assistant
\* alternate and a non-empty history ends with an assistant message; the
\* history is a sequence of complete turns whenever maxHistory is not a
\* positive odd number.
C39_CompleteTurnsEvenLimit ==
  /\ \A i \in 1..Len(conv.history) :
       /\ conv.history[i].Role \in {"user", "assistant"}
       /\ i < Len(conv.history) =>
            conv.history[i].Role # conv.history[i + 1].Role
  /\ conv.history # <<>> =>
       conv.history[Len(conv.history)].Role = "assistant"
  /\ (conv.maxHistory <= 0 \/ conv.maxHistory % 2 = 0) => CompleteTurns

C39_Witness ==
  /\ conv.maxHistory > 0 /\ conv.maxHistory % 2 = 0
  /\ conv.systemPrompt # ""
  /\ Len(conv.history) = conv.maxHistory
  /\ conv.history[1].Content # <<"message", 1>>

====
